---- MODULE Spec2Model ----
(***************************************************************************)
(* Model of slides_translator_agent/tools.py: the translate_presentation   *)
(* tool and the stages it drives (negotiate_creds, copy_presentation,      *)
(* extract_presentation_texts, translate_texts, batch_update_presentation, *)
(* report_usage).  The bodies of the last four stages and their call sites *)
(* in translate_presentation are the block of tools.py lines 132-329 and   *)
(* 374-411, which this revision of the file keeps behind comment markers;  *)
(* they are modelled as written there.                                     *)
(*                                                                         *)
(* A text is a sequence of one-character strings.                          *)
(***************************************************************************)
EXTENDS Integers, Sequences, FiniteSets, TLC

\* ------------------------------------------------------------------------
\* Bounds of the model
\* ------------------------------------------------------------------------

\* ThreadPoolExecutor(max_workers=...): CONCURRENT_TRANSLATION_WORKERS is 10
\* by default; the model runs a pool of two so that a document of three
\* fragments fills it.
max_workers == 2

\* batch_size = 50 in batch_update_presentation; scaled down so that three
\* requests span two batches.
batch_size == 2

\* Largest prompt_token_count a translation call reports in the model.
MaxTokens == 2

\* ------------------------------------------------------------------------
\* Python values
\* ------------------------------------------------------------------------

None == [none |-> TRUE]

Some(v) == [none |-> FALSE, val |-> v]

\* str.strip() removes these
Whitespace == {" "}

\* re.search("[a-zA-Z]", content) matches these
AsciiLetters == {"a", "b", "x"}

RECURSIVE LStrip(_)
LStrip(s) ==
    IF s = <<>> THEN s
    ELSE IF Head(s) \in Whitespace THEN LStrip(Tail(s)) ELSE s

RECURSIVE RStrip(_)
RStrip(s) ==
    IF s = <<>> THEN s
    ELSE IF s[Len(s)] \in Whitespace THEN RStrip(SubSeq(s, 1, Len(s) - 1)) ELSE s

\* str.strip()
Strip(s) == RStrip(LStrip(s))

\* x occurs in s at position p
MatchAt(s, x, p) ==
    /\ p + Len(x) - 1 <= Len(s)
    /\ \A k \in 1..Len(x) : s[p + k - 1] = x[k]

\* x in s (x a substring of s)
IsSubstring(x, s) == \E p \in 1..(Len(s) + 1) : MatchAt(s, x, p)

\* ------------------------------------------------------------------------
\* Documents: a presentation is a sequence of slides, a slide has an
\* objectId and pageElements, a shape element has text runs.
\* ------------------------------------------------------------------------

Shape(runs) == [kind |-> "shape", textRuns |-> runs]

Slide(id, elements) == [objectId |-> id, pageElements |-> elements]

\* "ab" and "a" share slide s1; "a" repeats on s2 beside "bab" (with padding):
\* three fragments of three lengths, each a substring of the next
DocOverlap ==
    << Slide("s1", << Shape(<< <<"a", "b">>, <<"a">> >>) >>),
       Slide("s2", << Shape(<< <<"a">> >>), Shape(<< <<"b", "a", "b", " ">> >>) >>) >>

\* the Hello/World scenario: one fragment on both slides, one on the second
DocTwo ==
    << Slide("s1", << Shape(<< <<"a">> >>) >>),
       Slide("s2", << Shape(<< <<"a">>, <<"b">> >>) >>) >>

\* nothing to translate
DocEmpty == << Slide("s1", << Shape(<< <<"1">>, <<" ">> >>) >>) >>

Documents == {DocOverlap, DocTwo, DocEmpty}

\* ------------------------------------------------------------------------
\* extract_presentation_texts
\* ------------------------------------------------------------------------

\* texts_to_locations is a dict: here the sequence of its items in insertion
\* order, [text, locations].
HasKey(t2l, content) == \E k \in 1..Len(t2l) : t2l[k].text = content

AddLocation(t2l, content, slide_id) ==
    IF HasKey(t2l, content)
    THEN [k \in 1..Len(t2l) |->
            IF t2l[k].text = content
            THEN [t2l[k] EXCEPT !.locations = @ \cup {slide_id}]
            ELSE t2l[k]]
    ELSE Append(t2l, [text |-> content, locations |-> {slide_id}])

\* (variant: the letter test is dropped)
HasLetter_Any(content) == TRUE

HasLetter(content) == \E k \in 1..Len(content) : content[k] \in AsciiLetters

IndexRun(t2l, run, slide_id) ==
    LET content == Strip(run)
    IN  IF content # <<>> /\ HasLetter(content)
        THEN AddLocation(t2l, content, slide_id)
        ELSE t2l

RECURSIVE IndexRuns(_, _, _)
IndexRuns(t2l, runs, slide_id) ==
    IF runs = <<>> THEN t2l
    ELSE IndexRuns(IndexRun(t2l, Head(runs), slide_id), Tail(runs), slide_id)

RECURSIVE IndexElements(_, _, _)
IndexElements(t2l, elements, slide_id) ==
    IF elements = <<>> THEN t2l
    ELSE LET element == Head(elements)
             next == IF element.kind = "shape"
                     THEN IndexRuns(t2l, element.textRuns, slide_id)
                     ELSE t2l
         IN  IndexElements(next, Tail(elements), slide_id)

RECURSIVE IndexSlides(_, _)
IndexSlides(t2l, slides) ==
    IF slides = <<>> THEN t2l
    ELSE IndexSlides(
            IndexElements(t2l, Head(slides).pageElements, Head(slides).objectId),
            Tail(slides))

extract_presentation_texts(slides) == IndexSlides(<<>>, slides)

\* unique_texts = list(texts_to_locations.keys())
Keys(t2l) == [k \in 1..Len(t2l) |-> t2l[k].text]

\* texts_to_locations.get(text)
Locations(t2l, text) ==
    IF HasKey(t2l, text)
    THEN (CHOOSE item \in {t2l[k] : k \in 1..Len(t2l)} : item.text = text).locations
    ELSE {}

\* ------------------------------------------------------------------------
\* translate_texts: what one call of the translation provider can return
\* ------------------------------------------------------------------------

\* response.text of a successful generate_content call for `text`: a
\* translation (with trailing whitespace), whitespace only, or the text
\* itself (identity translation).
ResponseTexts(text) == {<<"x", " ">>, <<" ">>, text}

\* response.usage_metadata: absent, or token counts
UsageValues ==
    {None} \cup
    {Some([prompt_token_count |-> p, candidates_token_count |-> 1]) : p \in 1..MaxTokens}

\* translate_text(text): the tuple the worker returns.
\*   raised = TRUE: generate_content (or response.text) raised, the except
\*   branch returns (text, None, None).
WorkerResult(text, raised, response_text, usage) ==
    IF raised
    THEN [text |-> text, translation |-> None, usage |-> None]
    ELSE [text |-> text, translation |-> Some(Strip(response_text)), usage |-> usage]

\* (variant: only None is falsy)
Truthy_NotNone(translation) == ~translation.none

\* Python truthiness of `translation` (None and "" are falsy) and of `usage`
Truthy(translation) == ~translation.none /\ translation.val # <<>>

\* (variant: the newest usage replaces the list)
CollectUsage_Overwrite(usages, usage) ==
    IF ~usage.none THEN <<usage.val>> ELSE usages

\* if usage: usages.append(usage)
CollectUsage(usages, usage) ==
    IF ~usage.none THEN Append(usages, usage.val) ELSE usages

\* if translation: translations[text] = translation
\* translations is a dict: the sequence of its items in insertion order.
SetItem(items, text, translation) ==
    IF \E k \in 1..Len(items) : items[k].text = text
    THEN [k \in 1..Len(items) |->
            IF items[k].text = text
            THEN [items[k] EXCEPT !.translation = translation]
            ELSE items[k]]
    ELSE Append(items, [text |-> text, translation |-> translation])

CollectTranslation(translations, text, translation) ==
    IF Truthy(translation)
    THEN SetItem(translations, text, translation.val)
    ELSE translations

\* the executor starts the oldest queued task when a worker thread is free
Running(fut) == {k \in DOMAIN fut : fut[k].st = "running"}

\* (variant: a task whose call raised is run again)
MayStart_Retry(fut, k) ==
    /\ \/ fut[k].st = "queued"
       \/ fut[k].st = "done" /\ fut[k].raised
    /\ Cardinality(Running(fut)) < max_workers

\* (variant: the pool has no limit)
MayStart_Unbounded(fut, k) ==
    /\ fut[k].st = "queued"
    /\ \A j \in DOMAIN fut : j < k => fut[j].st # "queued"

MayStart(fut, k) ==
    /\ fut[k].st = "queued"
    /\ \A j \in DOMAIN fut : j < k => fut[j].st # "queued"
    /\ Cardinality(Running(fut)) < max_workers

\* (variant: the loop ends at the first future yielded)
AllCollected_First(fut) == \E k \in DOMAIN fut : fut[k].st = "collected"

\* the with-block and the as_completed loop end once every future has been
\* yielded to the loop body
AllCollected(fut) == \A k \in DOMAIN fut : fut[k].st = "collected"

\* ------------------------------------------------------------------------
\* report_usage
\* ------------------------------------------------------------------------

RECURSIVE total_input_tokens(_)
total_input_tokens(usages) ==
    IF usages = <<>> THEN 0
    ELSE Head(usages).prompt_token_count + total_input_tokens(Tail(usages))

RECURSIVE total_output_tokens(_)
total_output_tokens(usages) ==
    IF usages = <<>> THEN 0
    ELSE Head(usages).candidates_token_count + total_output_tokens(Tail(usages))

report_usage(usages) ==
    [total_input_tokens |-> total_input_tokens(usages),
     total_output_tokens |-> total_output_tokens(usages)]

\* ------------------------------------------------------------------------
\* batch_update_presentation: the planner
\* ------------------------------------------------------------------------

MaxLen(items) ==
    CHOOSE n \in {Len(items[k].text) : k \in 1..Len(items)} :
        \A k \in 1..Len(items) : Len(items[k].text) <= n

FirstOfLen(items, n) ==
    CHOOSE p \in 1..Len(items) :
        /\ Len(items[p].text) = n
        /\ \A q \in 1..(p - 1) : Len(items[q].text) # n

Without(items, p) == SubSeq(items, 1, p - 1) \o SubSeq(items, p + 1, Len(items))

\* (variant: the items stay in dict order)
sorted_translations_Unsorted(items) == items

\* sorted(translations.items(), key=lambda item: len(item[0]), reverse=True):
\* a stable sort, items of equal length keep their dict order
RECURSIVE sorted_translations(_)
sorted_translations(items) ==
    IF items = <<>> THEN <<>>
    ELSE LET p == FirstOfLen(items, MaxLen(items))
         IN  <<items[p]>> \o sorted_translations(Without(items, p))

\* the request of one (text, translation) item
Request(text, translation, page_ids) ==
    [replaceText |-> translation, pageObjectIds |-> page_ids, containsText |-> text]

\* (variant: the translation is not tested)
Requested_NoStrip(item, t2l) == Locations(t2l, item.text) # {}

\* if translation.strip(): page_ids = texts_to_locations.get(text); if page_ids:
Requested(item, t2l) ==
    /\ Strip(item.translation) # <<>>
    /\ Locations(t2l, item.text) # {}

RECURSIVE BuildRequests(_, _)
BuildRequests(sorted, t2l) ==
    IF sorted = <<>> THEN <<>>
    ELSE LET item == Head(sorted)
             rest == BuildRequests(Tail(sorted), t2l)
         IN  IF Requested(item, t2l)
             THEN <<Request(item.text, item.translation, Locations(t2l, item.text))>> \o rest
             ELSE rest

PlanRequests(translations, t2l) == BuildRequests(sorted_translations(translations), t2l)

Min(a, b) == IF a <= b THEN a ELSE b

\* for i, start in enumerate(range(0, len(requests), batch_size)):
\*     batch = requests[start:start + batch_size]
\* as functions of the batch size: the number of iterations of the range, and
\* the slice of iteration i
BatchCountFor(requests, size) == (Len(requests) + size - 1) \div size

\* (variant: the slice stops one request early)
BatchSlice_Short(requests, i, size) ==
    SubSeq(requests, i * size + 1, Min((i + 1) * size - 1, Len(requests)))

BatchSlice(requests, i, size) ==
    SubSeq(requests, i * size + 1, Min((i + 1) * size, Len(requests)))

BatchCount(requests) == BatchCountFor(requests, batch_size)

Batch(requests, i) == BatchSlice(requests, i, batch_size)

\* ------------------------------------------------------------------------
\* presentations().batchUpdate: replaceAllText with containsText, matchCase,
\* restricted to pageObjectIds, one request after the other
\* ------------------------------------------------------------------------

RECURSIVE ReplaceAll(_, _, _)
ReplaceAll(s, x, y) ==
    IF s = <<>> THEN <<>>
    ELSE IF MatchAt(s, x, 1)
         THEN y \o ReplaceAll(SubSeq(s, Len(x) + 1, Len(s)), x, y)
         ELSE <<Head(s)>> \o ReplaceAll(Tail(s), x, y)

RECURSIVE CountIn(_, _)
CountIn(s, x) ==
    IF s = <<>> THEN 0
    ELSE IF MatchAt(s, x, 1)
         THEN 1 + CountIn(SubSeq(s, Len(x) + 1, Len(s)), x)
         ELSE CountIn(Tail(s), x)

ReplaceInElement(element, request) ==
    [element EXCEPT !.textRuns =
        [r \in 1..Len(@) |-> ReplaceAll(@[r], request.containsText, request.replaceText)]]

ReplaceAllText(slides, request) ==
    [s \in 1..Len(slides) |->
        IF slides[s].objectId \in request.pageObjectIds
        THEN [slides[s] EXCEPT !.pageElements =
                [e \in 1..Len(@) |-> ReplaceInElement(@[e], request)]]
        ELSE slides[s]]

RECURSIVE SumSeq(_)
SumSeq(ns) == IF ns = <<>> THEN 0 ELSE Head(ns) + SumSeq(Tail(ns))

CountInElement(element, x) ==
    SumSeq([r \in 1..Len(element.textRuns) |-> CountIn(element.textRuns[r], x)])

\* occurrencesChanged of the reply to one request
OccurrencesChanged(slides, request) ==
    SumSeq([s \in 1..Len(slides) |->
        IF slides[s].objectId \in request.pageObjectIds
        THEN SumSeq([e \in 1..Len(slides[s].pageElements) |->
                CountInElement(slides[s].pageElements[e], request.containsText)])
        ELSE 0])

\* the document after the requests of a batch
RECURSIVE ApplyRequests(_, _)
ApplyRequests(slides, batch) ==
    IF batch = <<>> THEN slides
    ELSE ApplyRequests(ReplaceAllText(slides, Head(batch)), Tail(batch))

\* response["replies"]: a reply omits occurrencesChanged when nothing matched
RECURSIVE Replies(_, _)
Replies(slides, batch) ==
    IF batch = <<>> THEN <<>>
    ELSE LET n == OccurrencesChanged(slides, Head(batch))
         IN  <<IF n = 0 THEN None ELSE Some(n)>>
             \o Replies(ReplaceAllText(slides, Head(batch)), Tail(batch))

\* (variant: only the first reply is counted)
Changes_First(replies) ==
    IF replies = <<>> \/ replies[1].none THEN 0 ELSE replies[1].val

\* sum(reply.get("replaceAllText", {}).get("occurrencesChanged", 0) ...)
Changes(replies) ==
    SumSeq([r \in 1..Len(replies) |-> IF replies[r].none THEN 0 ELSE replies[r].val])

\* ------------------------------------------------------------------------
\* negotiate_creds
\* ------------------------------------------------------------------------

\* tool_context.state[TOKEN_CACHE_KEY]: no entry, an entry
\* from_authorized_user_info rejects, a valid token, an expired token with a
\* refresh token, an expired token without one; "refreshed" and "exchanged"
\* are the tokens written back by lines 49 and 69.
CachedTokens == {"absent", "malformed", "valid", "expired_refreshable", "expired"}

ValidToken(token) == token \in {"valid", "refreshed", "exchanged"}

\* (variant: the auth response is not looked at)
AuthResponseStep_Always(cache, has_response) ==
    [creds |-> None, cache |-> cache, requested |-> 1]

\* lines 55-76: with `cache` what step 1 left in the tool state
AuthResponseStep(cache, has_response) ==
    IF has_response
    THEN [creds |-> Some("exchanged"), cache |-> "exchanged", requested |-> 0]
    ELSE [creds |-> None, cache |-> cache, requested |-> 1]

\* (variant: the except branch leaves the cache entry in place)
negotiate_creds_KeepCache(cached, refresh_ok, has_response) ==
    IF ValidToken(cached)
    THEN [creds |-> Some(cached), cache |-> cached, requested |-> 0]
    ELSE IF cached = "expired_refreshable" /\ refresh_ok
         THEN [creds |-> Some("refreshed"), cache |-> "refreshed", requested |-> 0]
    ELSE AuthResponseStep(cached, has_response)

\* the Credentials returned (None: the pending dict), the cache afterwards and
\* the number of request_credential calls
negotiate_creds(cached, refresh_ok, has_response) ==
    IF cached = "absent" THEN AuthResponseStep(cached, has_response)
    ELSE IF cached = "malformed" THEN AuthResponseStep("absent", has_response)
    ELSE IF ValidToken(cached)
         THEN [creds |-> Some(cached), cache |-> cached, requested |-> 0]
    ELSE IF cached = "expired_refreshable"
         THEN IF refresh_ok
              THEN [creds |-> Some("refreshed"), cache |-> "refreshed", requested |-> 0]
              ELSE AuthResponseStep("absent", has_response)
    ELSE AuthResponseStep(cached, has_response)

\* (variant: the pending result is not recognised)
IsPending_Never(auth_result) == FALSE

\* if isinstance(auth_result, dict): return auth_result
IsPending(auth_result) == auth_result.creds.none

\* ------------------------------------------------------------------------
\* State of one run of translate_presentation
\* ------------------------------------------------------------------------

VARIABLES
    pc,                   \* position in translate_presentation
    state_token,          \* tool_context.state[TOKEN_CACHE_KEY]
    credential_requests,  \* calls of tool_context.request_credential
    auth_calls,           \* the calls of negotiate_creds a session made on its own:
                          \* what each found and what it gave back
    original,             \* the slides of the caller's presentation
    copy,                 \* the slides of the copy, once it exists
    texts_to_locations,
    unique_texts,
    fut,                  \* the futures of the executor, by position in unique_texts:
                          \* st, and once done what the provider call did (raised,
                          \* response_text, usage_metadata) and the tuple returned (value)
    translations,
    usages,
    requests,
    apply_log,            \* batchUpdate calls issued and returned, in order
    in_flight,            \* batches whose batchUpdate call has not returned
    total_changes,
    result,               \* what translate_presentation gave its caller
    calls                 \* provider calls issued so far

vars == <<pc, state_token, credential_requests, auth_calls, original, copy, texts_to_locations,
          unique_texts, fut, translations, usages, requests, apply_log, in_flight,
          total_changes, result, calls>>

NoCalls == [get |-> 0, copy |-> 0, extract |-> 0, translate |-> <<>>, apply |-> 0]

Init ==
    /\ pc = "negotiate"
    /\ state_token \in CachedTokens
    /\ credential_requests = 0
    /\ auth_calls = <<>>
    /\ original \in Documents
    /\ copy = None
    /\ texts_to_locations = <<>>
    /\ unique_texts = <<>>
    /\ fut = <<>>
    /\ translations = <<>>
    /\ usages = <<>>
    /\ requests = <<>>
    /\ apply_log = <<>>
    /\ in_flight = {}
    /\ total_changes = 0
    /\ result = [kind |-> "running"]
    /\ calls = NoCalls

\* an exception leaves translate_presentation
Raise(error) ==
    /\ pc' = "raised"
    /\ result' = [kind |-> "raised", error |-> error]

\* lines 362-367: negotiate_creds, the pending short-circuit, initialize_services
Negotiate ==
    /\ pc = "negotiate"
    /\ \E refresh_ok \in BOOLEAN, has_response \in BOOLEAN :
         LET auth_result == negotiate_creds(state_token, refresh_ok, has_response)
         IN  /\ state_token' = auth_result.cache
             /\ credential_requests' = credential_requests + auth_result.requested
             /\ IF IsPending(auth_result)
                THEN /\ pc' = "returned"
                     /\ result' = [kind |-> "pending"]
                ELSE /\ pc' = "get"
                     /\ UNCHANGED result
    /\ UNCHANGED <<auth_calls, original, copy, texts_to_locations, unique_texts,
                   fut, translations, usages, requests, apply_log, in_flight,
                   total_changes, calls>>

\* copy_presentation, lines 90-92: presentations().get of the original
GetOriginal ==
    /\ pc = "get"
    /\ calls' = [calls EXCEPT !.get = @ + 1]
    /\ \E ok \in BOOLEAN :
         IF ok THEN pc' = "copy" /\ UNCHANGED result
         ELSE Raise("AccessError")
    /\ UNCHANGED <<state_token, credential_requests, auth_calls, original, copy,
                   texts_to_locations, unique_texts, fut, translations, usages,
                   requests, apply_log, in_flight, total_changes>>

\* copy_presentation, lines 103-105: files().copy
CopyOriginal ==
    /\ pc = "copy"
    /\ calls' = [calls EXCEPT !.copy = @ + 1]
    /\ \E ok \in BOOLEAN :
         IF ok THEN pc' = "extract" /\ copy' = Some(original) /\ UNCHANGED result
         ELSE Raise("AccessError") /\ UNCHANGED copy
    /\ UNCHANGED <<state_token, credential_requests, auth_calls, original,
                   texts_to_locations, unique_texts, fut, translations, usages,
                   requests, apply_log, in_flight, total_changes>>

\* extract_presentation_texts: presentations().get of the copy, then the index
Extract ==
    /\ pc = "extract"
    /\ calls' = [calls EXCEPT !.extract = @ + 1]
    /\ \E ok \in BOOLEAN :
         IF ok
         THEN /\ pc' = "submit"
              /\ texts_to_locations' = extract_presentation_texts(copy.val)
              /\ unique_texts' = Keys(texts_to_locations')
              /\ UNCHANGED result
         ELSE /\ Raise("AccessError")
              /\ UNCHANGED <<texts_to_locations, unique_texts>>
    /\ UNCHANGED <<state_token, credential_requests, auth_calls, original, copy, fut,
                   translations, usages, requests, apply_log, in_flight,
                   total_changes>>

\* translate_texts, line 217: one future per text
Submit ==
    /\ pc = "submit"
    /\ pc' = "translating"
    /\ fut' = [k \in 1..Len(unique_texts) |-> [st |-> "queued"]]
    /\ calls' = [calls EXCEPT !.translate = [k \in 1..Len(unique_texts) |-> 0]]
    /\ UNCHANGED <<state_token, credential_requests, auth_calls, original, copy,
                   texts_to_locations, unique_texts, translations, usages,
                   requests, apply_log, in_flight, total_changes, result>>

\* a worker thread takes a task and issues generate_content (line 198)
WorkerStart(k) ==
    /\ pc = "translating"
    /\ MayStart(fut, k)
    /\ fut' = [fut EXCEPT ![k] = [st |-> "running"]]
    /\ calls' = [calls EXCEPT !.translate[k] = @ + 1]
    /\ UNCHANGED <<pc, state_token, credential_requests, auth_calls, original, copy,
                   texts_to_locations, unique_texts, translations, usages,
                   requests, apply_log, in_flight, total_changes, result>>

\* the call returns or raises; translate_text returns its tuple (lines 206-214)
WorkerFinish(k) ==
    /\ pc = "translating"
    /\ fut[k].st = "running"
    /\ \E raised \in BOOLEAN, response_text \in ResponseTexts(unique_texts[k]),
          usage \in UsageValues :
         fut' = [fut EXCEPT ![k] =
                    [st |-> "done",
                     raised |-> raised,
                     response_text |-> IF raised THEN None ELSE Some(response_text),
                     usage_metadata |-> IF raised THEN None ELSE usage,
                     value |-> WorkerResult(unique_texts[k], raised, response_text, usage)]]
    /\ UNCHANGED <<pc, state_token, credential_requests, auth_calls, original, copy,
                   texts_to_locations, unique_texts, translations, usages,
                   requests, apply_log, in_flight, total_changes, result, calls>>

\* the as_completed loop body for one finished future (lines 219-223)
Collect(k) ==
    /\ pc = "translating"
    /\ fut[k].st = "done"
    /\ usages' = CollectUsage(usages, fut[k].value.usage)
    /\ translations' = CollectTranslation(translations, fut[k].value.text,
                                          fut[k].value.translation)
    /\ fut' = [fut EXCEPT ![k].st = "collected"]
    /\ UNCHANGED <<pc, state_token, credential_requests, auth_calls, original, copy,
                   texts_to_locations, unique_texts, requests, apply_log,
                   in_flight, total_changes, result, calls>>

\* translate_texts returns; batch_update_presentation builds its requests
\* (lines 244-265)
Plan ==
    /\ pc = "translating"
    /\ AllCollected(fut)
    /\ pc' = "apply"
    /\ requests' = PlanRequests(translations, texts_to_locations)
    /\ UNCHANGED <<state_token, credential_requests, auth_calls, original, copy,
                   texts_to_locations, unique_texts, fut, translations, usages,
                   apply_log, in_flight, total_changes, result, calls>>

\* number of batchUpdate calls issued so far: the loop's next batch index
Submitted(log) == Cardinality({p \in 1..Len(log) : log[p].ev = "submit"})

\* (variant: the loop does not wait for the call)
MaySubmit_Always(flying) == TRUE

\* .execute() blocks the loop: the next batch is built after the call returns
MaySubmit(flying) == flying = {}

\* (variant: the exception is swallowed and the loop goes on)
ApplyErrorPc_Continue == "apply"

\* no handler surrounds the batchUpdate call: its exception ends the loop
ApplyErrorPc == "raised"

\* (variant: the batches are sent to the caller's presentation)
UpdateTarget_Original == "original"

\* lines 395-396: batch_update_presentation is given the id of the copy,
\* which line 278 passes as presentationId
UpdateTarget == "copy"

\* lines 269-280: the loop issues batchUpdate for the next batch
ApplyStart ==
    /\ pc = "apply"
    /\ MaySubmit(in_flight)
    /\ Submitted(apply_log) < BatchCount(requests)
    /\ in_flight' = in_flight \cup {Submitted(apply_log)}
    /\ apply_log' = Append(apply_log,
          [ev |-> "submit", batch |-> Submitted(apply_log),
           presentationId |-> UpdateTarget])
    /\ calls' = [calls EXCEPT !.apply = @ + 1]
    /\ UNCHANGED <<pc, state_token, credential_requests, auth_calls, original, copy,
                   texts_to_locations, unique_texts, fut, translations, usages,
                   requests, total_changes, result>>

\* lines 281-287: the call returns its replies, or raises
ApplyReturn(k) ==
    /\ pc = "apply"
    /\ k \in in_flight
    /\ in_flight' = in_flight \ {k}
    /\ \E ok \in BOOLEAN :
         LET presentation == IF UpdateTarget = "copy" THEN copy.val ELSE original
         IN
         IF ok
         THEN /\ copy' = IF UpdateTarget = "copy"
                         THEN Some(ApplyRequests(presentation, Batch(requests, k)))
                         ELSE copy
              /\ original' = IF UpdateTarget = "copy"
                             THEN original
                             ELSE ApplyRequests(presentation, Batch(requests, k))
              /\ total_changes' =
                    total_changes + Changes(Replies(presentation, Batch(requests, k)))
              /\ apply_log' = Append(apply_log,
                    [ev |-> "return", batch |-> k,
                     replies |-> Replies(presentation, Batch(requests, k))])
              /\ UNCHANGED <<pc, result>>
         ELSE /\ apply_log' = Append(apply_log, [ev |-> "error", batch |-> k])
              /\ pc' = ApplyErrorPc
              /\ result' = [kind |-> "raised", error |-> "ApplyError"]
              /\ UNCHANGED <<original, copy, total_changes>>
    /\ UNCHANGED <<state_token, credential_requests, auth_calls,
                   texts_to_locations, unique_texts, fut, translations, usages,
                   requests, calls>>

\* (variant: the two counts of fragments change places)
Report_Swapped(found, translated, changes, usage_report) ==
    [kind |-> "report",
     unique_text_runs_found |-> translated,
     text_runs_translated |-> found,
     text_occurrences_changed |-> changes,
     total_input_tokens |-> usage_report.total_input_tokens,
     total_output_tokens |-> usage_report.total_output_tokens]

\* lines 398-416: report_usage and the report returned to the caller
Report(found, translated, changes, usage_report) ==
    [kind |-> "report",
     unique_text_runs_found |-> found,
     text_runs_translated |-> translated,
     text_occurrences_changed |-> changes,
     total_input_tokens |-> usage_report.total_input_tokens,
     total_output_tokens |-> usage_report.total_output_tokens]

Finish ==
    /\ pc = "apply"
    /\ in_flight = {}
    /\ Submitted(apply_log) = BatchCount(requests)
    /\ pc' = "returned"
    /\ result' = Report(Len(unique_texts), Len(translations), total_changes,
                        report_usage(usages))
    /\ UNCHANGED <<state_token, credential_requests, auth_calls, original, copy,
                   texts_to_locations, unique_texts, fut, translations, usages,
                   requests, apply_log, in_flight, total_changes, calls>>

Next ==
    \/ Negotiate
    \/ GetOriginal
    \/ CopyOriginal
    \/ Extract
    \/ Submit
    \/ \E k \in DOMAIN fut : WorkerStart(k)
    \/ \E k \in DOMAIN fut : WorkerFinish(k)
    \/ \E k \in DOMAIN fut : Collect(k)
    \/ Plan
    \/ ApplyStart
    \/ \E k \in in_flight : ApplyReturn(k)
    \/ Finish

Spec == Init /\ [][Next]_vars

\* ------------------------------------------------------------------------
\* Properties
\* ------------------------------------------------------------------------

\* translate_texts has returned
Dispatched ==
    \/ pc = "apply"
    \/ result.kind = "report"
    \/ (result.kind = "raised" /\ result.error = "ApplyError")

Finished(k) == fut[k].st \in {"done", "collected"}

\* generate_content calls issued for a text
CallsFor(text) ==
    SumSeq([k \in 1..Len(calls.translate) |->
                IF unique_texts[k] = text THEN calls.translate[k] ELSE 0])

InTranslations(text) == \E p \in 1..Len(translations) : translations[p].text = text

TranslationOf(text) ==
    (CHOOSE item \in {translations[p] : p \in 1..Len(translations)} :
        item.text = text).translation

ReportedInput ==
    SumSeq([k \in 1..Len(fut) |->
        IF Finished(k) /\ ~fut[k].raised /\ ~fut[k].usage_metadata.none
        THEN fut[k].usage_metadata.val.prompt_token_count ELSE 0])

ReportedOutput ==
    SumSeq([k \in 1..Len(fut) |->
        IF Finished(k) /\ ~fut[k].raised /\ ~fut[k].usage_metadata.none
        THEN fut[k].usage_metadata.val.candidates_token_count ELSE 0])

BatchOf(p) ==
    CHOOSE i \in 0..(BatchCount(requests) - 1) :
        \E q \in 1..Len(Batch(requests, i)) :
            Batch(requests, i)[q].containsText = requests[p].containsText

ApplyFailed == \E p \in 1..Len(apply_log) : apply_log[p].ev = "error"

\* the batches whose call returned
Returned(log) == Cardinality({p \in 1..Len(log) : log[p].ev = "return"})

\* the document after batches 0 .. n-1
RECURSIVE AfterBatches(_, _, _)
AfterBatches(slides, reqs, n) ==
    IF n = 0 THEN slides
    ELSE ApplyRequests(AfterBatches(slides, reqs, n - 1), Batch(reqs, n - 1))

C9_PendingShortCircuit ==
    credential_requests > 0 =>
        /\ pc = "returned"
        /\ result = [kind |-> "pending"]
        /\ calls = NoCalls
        /\ copy.none
        /\ fut = <<>>

C9_Witness ==
    /\ credential_requests = 1
    /\ result.kind = "pending"
    /\ state_token = "expired"

\* the text of run r of element e of slide s
RunOf(slides, s, e, r) == slides[s].pageElements[e].textRuns[r]

\* the fragment's translation call raised
TranslationFailed(text) ==
    \E k \in 1..Len(fut) : unique_texts[k] = text /\ Finished(k) /\ fut[k].raised

MaxRuns == 2

MaxDepth == 2

Group(children) == [kind |-> "group", children |-> children]

\* a table has rows of cells, a cell has text runs
Table(rows) == [kind |-> "table", tableRows |-> rows]

Digits == {"1"}

Punctuation == {"!"}

\* a letter of another alphabet (U+00E9, e with acute accent), one character
OtherLetters == {"U+00E9"}

Letters == AsciiLetters \cup OtherLetters

RunTexts ==
    { <<"a">>, <<" ", "b">>, <<"a", "!">>, <<"1">>, <<" ">>, <<"U+00E9">> }

RECURSIVE Nest(_, _)
Nest(element, depth) ==
    IF depth = 0 THEN element ELSE Group(<<Nest(element, depth - 1)>>)

WalkerElements ==
    {Shape(runs) : runs \in UNION {[1..n -> RunTexts] : n \in 1..MaxRuns}}
    \cup {Nest(Shape(<<run>>), depth) : run \in RunTexts, depth \in 1..MaxDepth}
    \cup {Table(<< << <<run>> >> >>) : run \in RunTexts}

WalkerDocuments ==
    { << Slide("s1", <<e1>>), Slide("s2", <<e2>>) >> : e1, e2 \in WalkerElements }

\* the state in which translate_presentation calls extract_presentation_texts:
\* credentials negotiated, the original read and copied
WalkerInit ==
    /\ pc = "extract"
    /\ state_token = "valid"
    /\ credential_requests = 0
    /\ auth_calls = <<>>
    /\ original \in WalkerDocuments
    /\ copy = Some(original)
    /\ texts_to_locations = <<>>
    /\ unique_texts = <<>>
    /\ fut = <<>>
    /\ translations = <<>>
    /\ usages = <<>>
    /\ requests = <<>>
    /\ apply_log = <<>>
    /\ in_flight = {}
    /\ total_changes = 0
    /\ result = [kind |-> "running"]
    /\ calls = [NoCalls EXCEPT !.get = 1, !.copy = 1]

WalkerNext == Extract

SpecWalker == WalkerInit /\ [][WalkerNext]_vars

\* extract_presentation_texts has returned the index
Indexed == pc = "submit"

\* every text run of a page element, at any depth
RECURSIVE AllRuns(_)
AllRuns(element) ==
    IF element.kind = "shape"
    THEN {element.textRuns[r] : r \in 1..Len(element.textRuns)}
    ELSE IF element.kind = "group"
    THEN UNION {AllRuns(element.children[c]) : c \in 1..Len(element.children)}
    ELSE UNION { UNION { { element.tableRows[i][j][r] :
                                r \in 1..Len(element.tableRows[i][j]) } :
                            j \in 1..Len(element.tableRows[i]) } :
                    i \in 1..Len(element.tableRows) }

SlideRuns(slide) ==
    UNION {AllRuns(slide.pageElements[e]) : e \in 1..Len(slide.pageElements)}

\* the runs of a slide that sit inside a group or a table cell
NestedRuns(slide) ==
    UNION {AllRuns(slide.pageElements[e]) :
            e \in {n \in 1..Len(slide.pageElements) : slide.pageElements[n].kind # "shape"}}

\* the runs of a slide that sit in a top-level shape
ShapeRuns(slide) ==
    UNION {AllRuns(slide.pageElements[e]) :
            e \in {n \in 1..Len(slide.pageElements) : slide.pageElements[n].kind = "shape"}}

\* a text fragment: not empty once trimmed, with a letter of some alphabet
Qualifies(run) ==
    /\ Strip(run) # <<>>
    /\ \E k \in 1..Len(Strip(run)) : Strip(run)[k] \in Letters

\* C11: the locations of an indexed fragment are exactly the slides that hold
\* a text run whose trimmed content is the fragment.
C11_LocationsExact ==
    Indexed =>
        \A p \in 1..Len(texts_to_locations) :
            texts_to_locations[p].locations =
                { copy.val[s].objectId :
                    s \in {n \in 1..Len(copy.val) :
                            \E run \in SlideRuns(copy.val[n]) :
                                Strip(run) = texts_to_locations[p].text} }

\* C12: every qualifying text run inside a group (at any depth) or a table
\* cell is indexed under the identifier of its slide.
C12_NestedRunsIndexed ==
    Indexed =>
        \A s \in 1..Len(copy.val) :
            \A run \in NestedRuns(copy.val[s]) :
                Qualifies(run) =>
                    copy.val[s].objectId \in Locations(texts_to_locations, Strip(run))

C14_ShapeRunsIndexed ==
    Indexed =>
        \A s \in 1..Len(copy.val) :
            \A run \in ShapeRuns(copy.val[s]) :
                Qualifies(run) =>
                    copy.val[s].objectId \in Locations(texts_to_locations, Strip(run))

\* ------------------------------------------------------------------------
\* batch_update_presentation on its own: called with any translations dict
\* and any texts_to_locations dict over three texts, on the copy of DocTwo
\* ------------------------------------------------------------------------

\* largest batch size the batching property is evaluated for
MaxBatchSize == 3

PlannerTexts == << <<"a">>, <<"a", "b">>, <<"b">> >>

\* a translation, one with padding, whitespace only
PlannerTranslations == { <<"x">>, <<"x", " ">>, <<" ">> }

\* no entry for the text, an entry without a slide, entries with slides
PlannerLocations == {None, Some({}), Some({"s1"}), Some({"s1", "s2"})}

\* a dict of translations: items with distinct keys, in any order
TranslationInputs ==
    { items \in UNION { [1..n -> [text : {PlannerTexts[k] : k \in 1..Len(PlannerTexts)},
                                   translation : PlannerTranslations]] :
                         n \in 0..Len(PlannerTexts) } :
        \A p, q \in 1..Len(items) : items[p].text = items[q].text => p = q }

RECURSIVE IndexFrom(_, _)
IndexFrom(texts, choice) ==
    IF texts = <<>> THEN <<>>
    ELSE LET rest == IndexFrom(Tail(texts), choice)
         IN  IF choice[Head(texts)].none THEN rest
             ELSE <<[text |-> Head(texts), locations |-> choice[Head(texts)].val]>> \o rest

IndexInputs ==
    { IndexFrom(PlannerTexts, choice) :
        choice \in [{PlannerTexts[k] : k \in 1..Len(PlannerTexts)} -> PlannerLocations] }

PlannerInit ==
    /\ pc = "translating"
    /\ state_token = "valid"
    /\ credential_requests = 0
    /\ auth_calls = <<>>
    /\ original = DocTwo
    /\ copy = Some(original)
    /\ texts_to_locations \in IndexInputs
    /\ unique_texts = Keys(texts_to_locations)
    /\ fut = <<>>
    /\ translations \in TranslationInputs
    /\ usages = <<>>
    /\ requests = <<>>
    /\ apply_log = <<>>
    /\ in_flight = {}
    /\ total_changes = 0
    /\ result = [kind |-> "running"]
    /\ calls = [NoCalls EXCEPT !.get = 1, !.copy = 1, !.extract = 1]

\* the planner, then the loop over the batches and the return
PlannerNext ==
    \/ Plan
    \/ ApplyStart
    \/ \E k \in in_flight : ApplyReturn(k)
    \/ Finish

SpecPlanner == PlannerInit /\ [][PlannerNext]_vars

\* batch_update_presentation has built its requests
Planned == pc = "apply"

RequestsFor(text) == {p \in 1..Len(requests) : requests[p].containsText = text}

HasLocation(text) ==
    \E k \in 1..Len(texts_to_locations) :
        /\ texts_to_locations[k].text = text
        /\ texts_to_locations[k].locations # {}

ShouldRequest(text) ==
    /\ InTranslations(text)
    /\ Strip(TranslationOf(text)) # <<>>
    /\ HasLocation(text)

RECURSIVE Concat(_, _, _)
Concat(reqs, size, n) ==
    IF n = 0 THEN <<>>
    ELSE Concat(reqs, size, n - 1) \o BatchSlice(reqs, n - 1, size)

RepliedCount(entry) ==
    IF entry.ev = "return"
    THEN SumSeq([r \in 1..Len(entry.replies) |->
                    IF entry.replies[r].none THEN 0 ELSE entry.replies[r].val])
    ELSE 0

ReportedChanges == SumSeq([p \in 1..Len(apply_log) |-> RepliedCount(apply_log[p])])

IdentityRun ==
    /\ Len(fut) > 0
    /\ \A k \in 1..Len(fut) :
          /\ Finished(k)
          /\ ~fut[k].raised
          /\ fut[k].response_text.val = unique_texts[k]

MaxInvocations == 3

\* the tool state of a session that has not called the tool yet
AuthInit ==
    /\ pc = "negotiate"
    /\ state_token \in CachedTokens
    /\ credential_requests = 0
    /\ auth_calls = <<>>
    /\ original = DocEmpty
    /\ copy = None
    /\ texts_to_locations = <<>>
    /\ unique_texts = <<>>
    /\ fut = <<>>
    /\ translations = <<>>
    /\ usages = <<>>
    /\ requests = <<>>
    /\ apply_log = <<>>
    /\ in_flight = {}
    /\ total_changes = 0
    /\ result = [kind |-> "running"]
    /\ calls = NoCalls

\* one call of negotiate_creds on the tool state (lines 35-76): refresh_ok is
\* whether creds.refresh would go through, has_response whether
\* get_auth_response has something to give
NegotiateCall ==
    /\ pc = "negotiate"
    /\ Len(auth_calls) < MaxInvocations
    /\ \E refresh_ok \in BOOLEAN, has_response \in BOOLEAN :
         LET auth_result == negotiate_creds(state_token, refresh_ok, has_response)
         IN  /\ state_token' = auth_result.cache
             /\ credential_requests' = credential_requests + auth_result.requested
             /\ auth_calls' = Append(auth_calls,
                    [cached |-> state_token,
                     refresh_ok |-> refresh_ok,
                     has_response |-> has_response,
                     creds |-> auth_result.creds,
                     cache |-> auth_result.cache,
                     requested |-> auth_result.requested])
    /\ UNCHANGED <<pc, original, copy, texts_to_locations, unique_texts, fut,
                   translations, usages, requests, apply_log, in_flight,
                   total_changes, result, calls>>

\* between two invocations the access token of the cached entry runs out:
\* the next load finds creds.valid false (line 43), creds.expired true and a
\* refresh token or none (line 46)
TokenExpires ==
    /\ pc = "negotiate"
    /\ auth_calls # <<>>
    /\ Len(auth_calls) < MaxInvocations
    /\ ValidToken(state_token)
    /\ state_token' \in {"expired_refreshable", "expired"}
    /\ UNCHANGED <<pc, credential_requests, auth_calls, original, copy,
                   texts_to_locations, unique_texts, fut, translations, usages,
                   requests, apply_log, in_flight, total_changes, result, calls>>

AuthNext ==
    \/ NegotiateCall
    \/ TokenExpires

SpecAuth == AuthInit /\ [][AuthNext]_vars

\* the call found a cached token it could return: valid, or refreshed
Usable(call) ==
    \/ call.cached \in {"valid", "refreshed", "exchanged"}
    \/ call.cached = "expired_refreshable" /\ call.refresh_ok

\* the call asked for credentials once and gave the pending result
Pending(call) == call.creds.none /\ call.requested = 1

\* the call gave credentials and asked for none
Authorized(call) == ~call.creds.none /\ call.requested = 0

\* C21: a call of negotiate_creds calls request_credential, once, and gives
\* the pending result exactly when the cache holds no token that is valid or
\* refreshes successfully and no auth response is available; every other
\* call gives credentials and does not call request_credential.
C21_NegotiateOutcome ==
    /\ \A i \in DOMAIN auth_calls :
          LET call == auth_calls[i]
          IN  /\ Pending(call) <=> (~Usable(call) /\ ~call.has_response)
              /\ ~Pending(call) => Authorized(call)
    /\ credential_requests =
          Cardinality({i \in DOMAIN auth_calls : Pending(auth_calls[i])})

\* a session whose first call is left pending and whose second call, the
\* auth response now there, gives credentials
C21_Witness ==
    /\ Len(auth_calls) >= 2
    /\ Pending(auth_calls[1])
    /\ ~auth_calls[1].has_response
    /\ Authorized(auth_calls[2])
    /\ auth_calls[2].has_response
    /\ credential_requests = 1

\* loading the cached token (line 42) or refreshing it (line 48) raised
LoadOrRefreshRaised(call) ==
    \/ call.cached = "malformed"
    \/ call.cached = "expired_refreshable" /\ ~call.refresh_ok

\* C22: whenever negotiate_creds returns credentials the token cache holds
\* afterwards the token of exactly those credentials, unchanged on a valid
\* cache hit and overwritten after a refresh or an exchange; whenever
\* loading or refreshing the cached token raises, the entry is removed
\* before the auth-response step, so that token is neither returned nor
\* left in the cache.
C22_CacheConsistent ==
    \A i \in DOMAIN auth_calls :
       LET call == auth_calls[i]
       IN  /\ ~call.creds.none =>
                /\ call.cache = call.creds.val
                /\ Usable(call) /\ call.cached # "expired_refreshable" =>
                      call.cache = call.cached
                /\ Usable(call) /\ call.cached = "expired_refreshable" =>
                      call.cache = "refreshed"
                /\ ~Usable(call) => call.cache = "exchanged"
           /\ LoadOrRefreshRaised(call) =>
                /\ call.cache # call.cached
                /\ call.creds.none => call.cache = "absent"
                /\ ~call.creds.none => call.creds.val # call.cached
           /\ i = Len(auth_calls) =>
                \/ state_token = call.cache
                \/ /\ ValidToken(call.cache)
                   /\ state_token \in {"expired_refreshable", "expired"}

\* a session in which a refresh raised and left the call pending with the
\* entry gone, and in which a later call exchanged an auth response
C22_Witness ==
    /\ Len(auth_calls) >= 2
    /\ auth_calls[1].cached = "expired_refreshable"
    /\ LoadOrRefreshRaised(auth_calls[1])
    /\ auth_calls[1].cache = "absent"
    /\ auth_calls[2].cached = "absent"
    /\ auth_calls[2].cache = "exchanged"
    /\ state_token = "exchanged"

\* the run ended in the exception of presentations().get of the original:
\* files().copy was never called
GetFailed == pc = "raised" /\ calls.get = 1 /\ calls.copy = 0

====
